---- MODULE Spec2Model ----
(***************************************************************************)
(* Model of SequenceAnalyzer.py: the SequenceAnalyzer class (its two       *)
(* instance lists, the DataFrame the caller passes to it) and the main     *)
(* driver that loops over files and runs.                                   *)
(*                                                                         *)
(* Column positions and the arguments start_column, end_column and         *)
(* reference_column are 0-based as in the source; TLA+ sequences are       *)
(* 1-based, so position p is index p + 1.                                   *)
(* Python 3 arithmetic is modelled (the driver calls print as a function): *)
(* "/" is true division, and its result is kept as an exact fraction.      *)
(***************************************************************************)
EXTENDS Integers, Sequences, FiniteSets, TLC

\* ---------------------------------------------------------------- bounds
MaxRows == 2
MaxIntensity == 1
MaxCols == 12
MaxSeqLen == 4

\* ------------------------------------------------------------- variables
VARIABLES
    csv,        \* content of the csv file(s): csv[f] is what read_csv gives for files[f]
    data,       \* the DataFrame held by the caller: [columns, rows]
    reference,  \* self.reference
    basecall,   \* self.basecall
    ret,        \* value returned by the most recent calculate_error, if it returned
    raised,     \* exception raised by the most recent call ("none" if it returned)
    call,       \* the most recent call and its arguments
    pc,         \* position of the main driver ("api" when methods are called freely)
    stmt,       \* index of the current statement in the body of the run loop
    fileIdx,    \* index of the current file (1-based)
    runIdx,     \* index of the current run (1-based)
    printed,    \* the percentages printed so far, in order
    bcFrom,     \* <<file, run>>: the file whose table filled self.basecall, and the
                \* driver's run that did it (0 outside the driver)
    refFrom     \* <<file, run>>: the same for self.reference

vars == <<csv, data, reference, basecall, ret, raised, call, pc, stmt,
          fileIdx, runIdx, printed, bcFrom, refFrom>>

\* ------------------------------------------------------ program constants
\* base_orders, line 149
base_orders == << <<"A", "C", "G", "T", "A", "C", "G", "T">>,
                  <<"C", "G", "T", "A", "C", "G", "T", "A">> >>

\* RUN1 and RUN2, lines 162-174 (sheet_title is only used by the disabled export)
RUN1 == [start_column |-> 1, end_column |-> 5, ref_column |-> 0]
RUN2 == [start_column |-> 7, end_column |-> 11, ref_column |-> 6]
runs == <<RUN1, RUN2>>

\* files, lines 156-159: two paths
NumFiles == 2

\* df.columns[[1,2,3,4,7,8,9,10]], line 69
RelabelPositions == <<1, 2, 3, 4, 7, 8, 9, 10>>

\* the statements of the body of the run loop in execution order, lines 186-197
RunBody_swapped == <<"basecall_sequence", "calculate_error", "reference_sequence">>
RunBody == <<"basecall_sequence", "reference_sequence", "calculate_error">>

\* ------------------------------------------------------------ small helpers
Min(a, b) == IF a < b THEN a ELSE b
Abs(x) == IF x < 0 THEN -x ELSE x

RECURSIVE GCD(_, _)
GCD(a, b) == IF b = 0 THEN a ELSE GCD(b, a % b)

\* an exact fraction num/den in lowest terms, den > 0
Frac(num, den) ==
    LET g == GCD(Abs(num), Abs(den))
        s == IF den < 0 THEN -1 ELSE 1
    IN [kind |-> "value", num |-> (s * num) \div g, den |-> (s * den) \div g]

NoValue == [kind |-> "none", num |-> 0, den |-> 1]

NumRows(df) == Len(df.rows)
NumCols(df) == Len(df.columns)

\* pd.DataFrame(): no columns, no rows.  The field file names the csv file a
\* DataFrame was read from (0: none); no method reads it.
EmptyFrame == [file |-> 0, columns |-> <<>>, rows |-> <<>>]

\* ------------------------------------------------------------- the methods

\* no_max, line 54: len(pd.unique(row)) == 1
no_max_firstlast(row) == Len(row) > 0 /\ row[1] = row[Len(row)]
no_max(row) == Cardinality({row[j] : j \in 1..Len(row)}) = 1

\* Series.idxmax on a slice: index (within the slice) of the first occurrence
\* of the largest value, found by a left-to-right scan that replaces the
\* candidate only on a strictly larger value
RECURSIVE argmax_scan(_, _, _)
argmax_scan(row, j, best) ==
    IF j > Len(row) THEN best
    ELSE argmax_scan(row, j + 1, IF row[j] > row[best] THEN j ELSE best)

RECURSIVE argmax_scan_last(_, _, _)
argmax_scan_last(row, j, best) ==
    IF j > Len(row) THEN best
    ELSE argmax_scan_last(row, j + 1, IF row[j] >= row[best] THEN j ELSE best)

RECURSIVE argmax_scan_min(_, _, _)
argmax_scan_min(row, j, best) ==
    IF j > Len(row) THEN best
    ELSE argmax_scan_min(row, j + 1, IF row[j] < row[best] THEN j ELSE best)

idxmax_last(row, labels) == labels[argmax_scan_last(row, 2, 1)]
idxmax_min(row, labels) == labels[argmax_scan_min(row, 2, 1)]
idxmax(row, labels) == labels[argmax_scan(row, 2, 1)]

\* row[start_column:end_column]: positional slice, clipped at the row's end
slice(seq, start, end) == SubSeq(seq, start + 1, Min(end, Len(seq)))

\* line 92: self.basecall = []
basecall_reset_keep(old) == old
basecall_reset(old) == <<>>

\* lines 93-98: one iteration of the loop of basecall_sequence
basecall_row(df, i, start, end) ==
    LET row == slice(df.rows[i], start, end)
    IN IF no_max(row) THEN "N" ELSE idxmax(row, slice(df.columns, start, end))

\* lines 93-98: for index, row in df.iterrows(): self.basecall.append(...)
RECURSIVE basecall_loop(_, _, _, _, _)
basecall_loop(df, start, end, i, acc) ==
    IF i > NumRows(df) THEN acc
    ELSE basecall_loop(df, start, end, i + 1,
                       Append(acc, basecall_row(df, i, start, end)))

\* basecall_sequence, lines 92-99: the new value of self.basecall
basecall_sequence(df, start, end, old) ==
    basecall_loop(df, start, end, 1, basecall_reset(old))

\* line 118: self.reference = []
reference_reset_keep(old) == old
reference_reset(old) == <<>>

\* lines 119-120: for index, row in df.iterrows(): self.reference.append(row[c])
RECURSIVE reference_loop(_, _, _, _)
reference_loop(df, c, i, acc) ==
    IF i > NumRows(df) THEN acc
    ELSE reference_loop(df, c, i + 1, Append(acc, df.rows[i][c + 1]))

\* reference_sequence, lines 118-121: the new value of self.reference
reference_sequence(df, c, old) == reference_loop(df, c, 1, reference_reset(old))

\* lines 136-138: the counting loop; -1 stands for the IndexError raised by
\* self.basecall[index] when the basecall list is shorter than the reference
RECURSIVE count_loop(_, _, _, _)
count_loop(ref, bc, i, count) ==
    IF i > Len(ref) THEN count
    ELSE IF i > Len(bc) THEN -1
    ELSE count_loop(ref, bc, i + 1, IF ref[i] = bc[i] THEN count + 1 ELSE count)

\* line 139: abs(((count - sequence_length) / sequence_length)) * 100;
\* int / int with a zero divisor raises ZeroDivisionError
error_value_nozero(count, n) ==
    IF n = 0 THEN [raised |-> "none", ret |-> Frac(0, 1)]
    ELSE [raised |-> "none", ret |-> Frac(Abs(count - n) * 100, n)]
error_value_matches(count, n) ==
    IF n = 0 THEN [raised |-> "ZeroDivisionError", ret |-> NoValue]
    ELSE [raised |-> "none", ret |-> Frac(count * 100, n)]
error_value(count, n) ==
    IF n = 0 THEN [raised |-> "ZeroDivisionError", ret |-> NoValue]
    ELSE LET q == Frac(count - n, n)
             a == Frac(Abs(q.num), q.den)
         IN [raised |-> "none", ret |-> Frac(a.num * 100, a.den)]

\* calculate_error, lines 133-139: what the call raises and returns
calculate_error(ref, bc) ==
    LET count == count_loop(ref, bc, 1, 0)
    IN IF count = -1 THEN [raised |-> "IndexError", ret |-> NoValue]
       ELSE error_value(count, Len(ref))

\* line 69: dict(zip(df.columns[[1,2,3,4,7,8,9,10]], new_cols)).  zip stops at
\* the shorter argument; a key that occurs twice keeps the value zipped last.
zip_len(base_order) == Min(Len(RelabelPositions), Len(base_order))
zip_keys(df, base_order) ==
    [i \in 1..zip_len(base_order) |-> df.columns[RelabelPositions[i] + 1]]
rename_label(df, base_order, label) ==
    LET keys == zip_keys(df, base_order)
        hits == {i \in 1..Len(keys) : keys[i] = label}
    IN IF hits = {} THEN label
       ELSE base_order[CHOOSE i \in hits : \A k \in hits : k <= i]

\* change_column_titles, lines 68-69: df.rename(columns=..., inplace=True)
\* maps every column title through the dict; indexing df.columns with a
\* position past the last column raises IndexError before anything is renamed
change_column_titles(df, base_order) ==
    IF NumCols(df) <= RelabelPositions[Len(RelabelPositions)]
    THEN [raised |-> "IndexError", df |-> df]
    ELSE [raised |-> "none",
          df |-> [df EXCEPT !.columns =
                     [j \in 1..NumCols(df) |-> rename_label(df, base_order, df.columns[j])]]]

\* ------------------------------------------------------------- the inputs
\* the titles read_csv gives the columns of a file (read_csv keeps them distinct)
ColumnTitles == <<"ref_1", "a1", "a2", "a3", "a4", "cycle", "ref_2",
                  "b1", "b2", "b3", "b4", "x1", "x2", "x3">>

Bases == <<"A", "C", "G", "T">>
RunWidth == 4
Intensity == 0..MaxIntensity
Quads == [1..RunWidth -> Intensity]

Rot(q, k) == [j \in 1..Len(q) |-> q[((j - 1 + k) % Len(q)) + 1]]
Reverse(q) == [j \in 1..Len(q) |-> q[Len(q) + 1 - j]]

\* row i of a file: reference base and intensities of run 1, the cycle number,
\* reference base and intensities of run 2, then unused columns
FileRow(i, q) ==
    <<Bases[((i - 1) % 4) + 1]>> \o Rot(q, i - 1) \o <<i>> \o
    <<Bases[(i % 4) + 1]>> \o Reverse(Rot(q, i - 1)) \o <<0, 0, 0>>

\* a file of n rows and w columns whose first row has intensities q
Frame(n, q, w) ==
    [columns |-> SubSeq(ColumnTitles, 1, w),
     rows    |-> [i \in 1..n |-> SubSeq(FileRow(i, q), 1, w)]]

LayoutCols == 11
Tables == {Frame(n, q, LayoutCols) : n \in 0..MaxRows, q \in Quads}
WideTables == {Frame(n, q, w) : n \in 0..1, q \in {<<0, 1, 1, 0>>},
                                w \in (LayoutCols - 1)..MaxCols}
\* a second file, with one row
OtherTable == Frame(1, <<0, 1, 1, 0>>, LayoutCols)

\* column slices passed to basecall_sequence: the two runs and parts of them,
\* down to a single column
Slices == {<<1, 5>>, <<7, 11>>, <<2, 5>>, <<8, 10>>, <<3, 4>>}
RefColumns == {0, 6}

\* label lists passed to change_column_titles: the driver's two, one whose
\* second run has another order, one too short and one too long
MixedOrder == <<"A", "C", "G", "T", "C", "G", "T", "A">>
ShortOrder == <<"G", "T", "A">>
LongOrder  == <<"T", "G", "C", "A", "T", "G", "C", "A", "N">>
DriverOrders == {base_orders[f] : f \in 1..NumFiles}
BaseOrders == DriverOrders \cup {MixedOrder, ShortOrder, LongOrder}

\* reference and basecall lists handed to calculate_error: every reference of
\* up to MaxSeqLen bases; the basecall is the reference miscalled at the
\* positions in wrong (as "N", or as the next base), then possibly one entry
\* shorter or one entry longer
BoundedSeqs(S, n) == UNION {[1..k -> S] : k \in 0..n}
NextBase(b) == Bases[((CHOOSE j \in 1..4 : Bases[j] = b) % 4) + 1]
Miscalled(ref, wrong, asN) ==
    [i \in 1..Len(ref) |-> IF i \in wrong THEN (IF asN THEN "N" ELSE NextBase(ref[i]))
                           ELSE ref[i]]
Resized(bc, d) ==
    IF d = -1 THEN (IF Len(bc) = 0 THEN bc ELSE SubSeq(bc, 1, Len(bc) - 1))
    ELSE IF d = 1 THEN Append(bc, "N")
    ELSE bc

\* ----------------------------------------------------------- the state
NoCall == [op |-> "__init__", start |-> 0, end |-> 0, col |-> 0, order |-> <<>>]
Called(op, start, end, col, order) ==
    [op |-> op, start |-> start, end |-> end, col |-> col, order |-> order]

\* __init__, lines 21-23
InitFields ==
    /\ reference = <<>>
    /\ basecall = <<>>
    /\ ret = NoValue
    /\ raised = "none"
    /\ call = NoCall
    /\ printed = <<>>
    /\ bcFrom = <<0, 0>>
    /\ refFrom = <<0, 0>>

driverVars == <<pc, stmt, fileIdx, runIdx, printed, bcFrom, refFrom>>

\* ------------------------------------------- the methods called in any order
\* import_csv, line 35: a fresh DataFrame with the file's own column titles
import_csv(f) == [file |-> f, columns |-> csv[f].columns, rows |-> csv[f].rows]

import_csv_step ==
    /\ pc = "api"
    /\ \E f \in 1..Len(csv) : data' = import_csv(f)
    /\ call' = Called("import_csv", 0, 0, 0, <<>>)
    /\ raised' = "none"
    /\ UNCHANGED <<csv, reference, basecall, ret, driverVars>>

change_column_titles_step(orders) ==
    /\ pc = "api"
    /\ \E order \in orders :
         LET r == change_column_titles(data, order)
         IN /\ data' = r.df
            /\ raised' = r.raised
            /\ call' = Called("change_column_titles", 0, 0, 0, order)
    /\ UNCHANGED <<csv, reference, basecall, ret, driverVars>>

basecall_sequence_step ==
    /\ pc = "api"
    /\ \E sl \in Slices :
         /\ NumRows(data) = 0 \/ sl[1] < NumCols(data)
         /\ basecall' = basecall_sequence(data, sl[1], sl[2], basecall)
         /\ call' = Called("basecall_sequence", sl[1], sl[2], 0, <<>>)
    /\ bcFrom' = <<data.file, 0>>
    /\ raised' = "none"
    /\ UNCHANGED <<csv, data, reference, ret, pc, stmt, fileIdx, runIdx, printed, refFrom>>

reference_sequence_step ==
    /\ pc = "api"
    /\ \E c \in RefColumns :
         /\ NumRows(data) = 0 \/ c < NumCols(data)
         /\ reference' = reference_sequence(data, c, reference)
         /\ call' = Called("reference_sequence", 0, 0, c, <<>>)
    /\ refFrom' = <<data.file, 0>>
    /\ raised' = "none"
    /\ UNCHANGED <<csv, data, basecall, ret, pc, stmt, fileIdx, runIdx, printed, bcFrom>>

calculate_error_step ==
    /\ pc = "api"
    /\ LET r == calculate_error(reference, basecall)
       IN /\ ret' = r.ret
          /\ raised' = r.raised
    /\ call' = Called("calculate_error", 0, 0, 0, <<>>)
    /\ UNCHANGED <<csv, data, reference, basecall, driverVars>>

ApiIdle ==
    /\ pc = "api"
    /\ stmt = 1
    /\ fileIdx = 1
    /\ runIdx = 1

\* Spec: one analyzer and two files; the methods are called in any order, on
\* either file's table, with the driver's label lists
Init ==
    /\ csv \in {<<t, OtherTable>> : t \in Tables}
    /\ data = EmptyFrame
    /\ InitFields
    /\ ApiIdle

change_driver_titles_step == change_column_titles_step(DriverOrders)

Next ==
    \/ import_csv_step
    \/ change_driver_titles_step
    \/ basecall_sequence_step
    \/ reference_sequence_step
    \/ calculate_error_step

Spec == Init /\ [][Next]_vars

\* SpecRelabel: change_column_titles with label lists of any length, on tables
\* of LayoutCols - 1 to MaxCols columns
InitRelabel ==
    /\ csv \in {<<t>> : t \in WideTables}
    /\ data = EmptyFrame
    /\ InitFields
    /\ ApiIdle

change_any_titles_step == change_column_titles_step(BaseOrders)

NextRelabel ==
    \/ import_csv_step
    \/ change_any_titles_step

SpecRelabel == InitRelabel /\ [][NextRelabel]_vars

\* SpecErr: calculate_error on given reference and basecall lists
InitErr ==
    /\ csv = <<>>
    /\ data = EmptyFrame
    /\ reference \in BoundedSeqs({Bases[j] : j \in 1..4}, MaxSeqLen)
    /\ \E wrong \in SUBSET (1..Len(reference)), asN \in BOOLEAN, d \in {-1, 0, 1} :
         basecall = Resized(Miscalled(reference, wrong, asN), d)
    /\ ret = NoValue
    /\ raised = "none"
    /\ call = NoCall
    /\ printed = <<>>
    /\ bcFrom = <<0, 0>>
    /\ refFrom = <<0, 0>>
    /\ ApiIdle

NextErr == calculate_error_step

SpecErr == InitErr /\ [][NextErr]_vars

\* ------------------------------------------------------- the main driver
\* where the driver goes after statement stmt of run runIdx of file fileIdx:
\* the next statement, the next run (line 185), the next file (line 178), the end
advance ==
    IF stmt < Len(RunBody)
    THEN [pc |-> "run", stmt |-> stmt + 1, fileIdx |-> fileIdx, runIdx |-> runIdx]
    ELSE IF runIdx < Len(runs)
    THEN [pc |-> "run", stmt |-> 1, fileIdx |-> fileIdx, runIdx |-> runIdx + 1]
    ELSE IF fileIdx < NumFiles
    THEN [pc |-> "new", stmt |-> 1, fileIdx |-> fileIdx + 1, runIdx |-> 1]
    ELSE [pc |-> "done", stmt |-> 1, fileIdx |-> fileIdx, runIdx |-> runIdx]

goto(n) ==
    /\ pc' = n.pc
    /\ stmt' = n.stmt
    /\ fileIdx' = n.fileIdx
    /\ runIdx' = n.runIdx

\* line 179: excel = SequenceAnalyzer(files[index])
main_new ==
    /\ pc = "new"
    /\ reference' = <<>>
    /\ basecall' = <<>>
    /\ bcFrom' = <<0, 0>>
    /\ refFrom' = <<0, 0>>
    /\ call' = NoCall
    /\ raised' = "none"
    /\ pc' = "import_csv"
    /\ UNCHANGED <<csv, data, ret, stmt, fileIdx, runIdx, printed>>

\* line 180: data = excel.import_csv()
main_import_csv ==
    /\ pc = "import_csv"
    /\ data' = import_csv(fileIdx)
    /\ call' = Called("import_csv", 0, 0, 0, <<>>)
    /\ raised' = "none"
    /\ pc' = "change_column_titles"
    /\ UNCHANGED <<csv, reference, basecall, ret, stmt, fileIdx, runIdx, printed,
                   bcFrom, refFrom>>

\* lines 181-182: order = base_orders[index]; excel.change_column_titles(data, order)
main_change_column_titles ==
    /\ pc = "change_column_titles"
    /\ LET r == change_column_titles(data, base_orders[fileIdx])
       IN /\ data' = r.df
          /\ raised' = r.raised
          /\ pc' = IF r.raised = "none" THEN "run" ELSE "crashed"
    /\ call' = Called("change_column_titles", 0, 0, 0, base_orders[fileIdx])
    /\ stmt' = 1
    /\ runIdx' = 1
    /\ UNCHANGED <<csv, reference, basecall, ret, fileIdx, printed, bcFrom, refFrom>>

\* line 186
main_basecall_sequence ==
    /\ pc = "run"
    /\ RunBody[stmt] = "basecall_sequence"
    /\ LET run == runs[runIdx]
       IN /\ basecall' = basecall_sequence(data, run.start_column, run.end_column, basecall)
          /\ call' = Called("basecall_sequence", run.start_column, run.end_column, 0, <<>>)
    /\ bcFrom' = <<fileIdx, runIdx>>
    /\ raised' = "none"
    /\ goto(advance)
    /\ UNCHANGED <<csv, data, reference, ret, printed, refFrom>>

\* line 187
main_reference_sequence ==
    /\ pc = "run"
    /\ RunBody[stmt] = "reference_sequence"
    /\ LET run == runs[runIdx]
       IN /\ reference' = reference_sequence(data, run.ref_column, reference)
          /\ call' = Called("reference_sequence", 0, 0, run.ref_column, <<>>)
    /\ refFrom' = <<fileIdx, runIdx>>
    /\ raised' = "none"
    /\ goto(advance)
    /\ UNCHANGED <<csv, data, basecall, ret, printed, bcFrom>>

\* line 197: print(excel.calculate_error(), '%'); an exception is not caught
\* and ends the program
main_calculate_error ==
    /\ pc = "run"
    /\ RunBody[stmt] = "calculate_error"
    /\ LET r == calculate_error(reference, basecall)
       IN /\ ret' = r.ret
          /\ raised' = r.raised
          /\ IF r.raised = "none"
             THEN /\ printed' = Append(printed, r.ret)
                  /\ goto(advance)
             ELSE /\ printed' = printed
                  /\ pc' = "crashed"
                  /\ UNCHANGED <<stmt, fileIdx, runIdx>>
    /\ call' = Called("calculate_error", 0, 0, 0, <<>>)
    /\ UNCHANGED <<csv, data, reference, basecall, bcFrom, refFrom>>

\* SpecMain: the main driver, lines 178-197, on any two files
InitMain ==
    /\ csv \in {<<t, u>> : t \in Tables, u \in Tables}
    /\ data = EmptyFrame
    /\ InitFields
    /\ pc = "new"
    /\ stmt = 1
    /\ fileIdx = 1
    /\ runIdx = 1

NextMain ==
    \/ main_new
    \/ main_import_csv
    \/ main_change_column_titles
    \/ main_basecall_sequence
    \/ main_reference_sequence
    \/ main_calculate_error

SpecMain == InitMain /\ [][NextMain]_vars

\* ---------------------------------------------------------------- claims
\* what the claims say about a row, stated without the methods above
SliceCols(df, start, end) == (start + 1)..Min(end, NumCols(df))
AllEqual(df, i, start, end) ==
    \A j, k \in SliceCols(df, start, end) : df.rows[i][j] = df.rows[i][k]
MaxAt(df, i, start, end) ==
    {j \in SliceCols(df, start, end) :
        \A k \in SliceCols(df, start, end) : df.rows[i][k] <= df.rows[i][j]}
FirstOf(S) == CHOOSE j \in S : \A k \in S : j <= k
JustCalled(op) == call.op = op /\ raised = "none" /\ pc = "api"

\* C1 as stated: after basecall_sequence(df, start, end), every row whose slice
\* has exactly one column holding the largest value has, at its position in
\* self.basecall, the title of that column
C1_Original ==
    JustCalled("basecall_sequence") =>
        \A i \in 1..NumRows(data) :
            Cardinality(MaxAt(data, i, call.start, call.end)) = 1 =>
                /\ i \in DOMAIN basecall
                /\ basecall[i] = data.columns[FirstOf(MaxAt(data, i, call.start, call.end))]

\* C1 amended: the same for slices of two or more columns (a one-column slice
\* is flat, so its row is called "N")
C1_UniqueMax ==
    (JustCalled("basecall_sequence") /\ call.end - call.start >= 2) =>
        \A i \in 1..NumRows(data) :
            Cardinality(MaxAt(data, i, call.start, call.end)) = 1 =>
                /\ i \in DOMAIN basecall
                /\ basecall[i] = data.columns[FirstOf(MaxAt(data, i, call.start, call.end))]

C1_Witness ==
    /\ JustCalled("basecall_sequence")
    /\ call.end - call.start >= 2
    /\ NumRows(data) = 2
    /\ \A i \in 1..2 : Cardinality(MaxAt(data, i, call.start, call.end)) = 1
    /\ FirstOf(MaxAt(data, 1, call.start, call.end)) # call.start + 1
    /\ basecall[1] = "G"

\* C2: after basecall_sequence(df, start, end), self.basecall holds "N" at a
\* row's position if and only if all values of the row's slice are equal
C2_FlatIsN ==
    JustCalled("basecall_sequence") =>
        \A i \in 1..NumRows(data) :
            /\ i \in DOMAIN basecall
            /\ (basecall[i] = "N") <=> AllEqual(data, i, call.start, call.end)

C2_Witness ==
    /\ JustCalled("basecall_sequence")
    /\ NumRows(data) = 2
    /\ call.end - call.start = 4
    /\ AllEqual(data, 1, call.start, call.end)
    /\ basecall = <<"N", "N">>

\* C3: after basecall_sequence(df, start, end), a row that is not flat and has
\* two or more columns holding the largest value has, at its position, the
\* title of the first of them, which no later one of them carries
C3_FirstOfTies ==
    JustCalled("basecall_sequence") =>
        \A i \in 1..NumRows(data) :
            LET ties == MaxAt(data, i, call.start, call.end)
            IN (~AllEqual(data, i, call.start, call.end) /\ Cardinality(ties) >= 2) =>
                 /\ i \in DOMAIN basecall
                 /\ basecall[i] = data.columns[FirstOf(ties)]
                 /\ \A j \in ties \ {FirstOf(ties)} : basecall[i] # data.columns[j]

C3_Witness ==
    /\ JustCalled("basecall_sequence")
    /\ NumRows(data) >= 1
    /\ LET ties == MaxAt(data, 1, call.start, call.end)
       IN /\ ~AllEqual(data, 1, call.start, call.end)
          /\ Cardinality(ties) >= 2
          /\ FirstOf(ties) # call.start + 1
          /\ basecall[1] = data.columns[FirstOf(ties)]

\* the number of positions at which two lists of equal length differ
Differ(ref, bc) == Cardinality({i \in 1..Len(ref) : ref[i] # bc[i]})

\* C4: for a reference and a basecall of equal length n > 0 that differ in k
\* positions calculate_error returns k/n * 100 (ret.num/ret.den = 100k/n); it
\* returns 0 for equal lists and 25 for A,C,G,T against A,C,G,N
C4_ErrorRate ==
    (call.op = "calculate_error" /\ Len(reference) = Len(basecall) /\ Len(reference) > 0) =>
        /\ raised = "none"
        /\ ret.kind = "value"
        /\ ret.den > 0
        /\ ret.num * Len(reference) = Differ(reference, basecall) * 100 * ret.den
        /\ (reference = basecall => ret.num = 0)
        /\ (reference = <<"A", "C", "G", "T">> /\ basecall = <<"A", "C", "G", "N">>
              => (ret.num = 25 /\ ret.den = 1))

C4_Witness ==
    /\ call.op = "calculate_error"
    /\ reference = <<"A", "C", "G", "T">>
    /\ basecall = <<"A", "C", "G", "N">>
    /\ ret = [kind |-> "value", num |-> 25, den |-> 1]

\* C5 as stated: in every state the reference list and the basecall list have
\* equal length
C5_Original == Len(reference) = Len(basecall)

\* C5 amended: whenever the most recent basecall_sequence and the most recent
\* reference_sequence were given the table of the same file (or neither was
\* called), both lists have one entry per row of that table, and entry i of
\* each comes from row i: reference[i] is a reference base of row i, and
\* basecall[i] is "N" exactly if row i is flat in the slice used
C5_AlignedOnSameTable ==
    (pc = "api" /\ bcFrom[1] = refFrom[1]) =>
        /\ Len(reference) = Len(basecall)
        /\ bcFrom[1] # 0 =>
             LET t == csv[bcFrom[1]]
             IN /\ Len(basecall) = NumRows(t)
                /\ \A i \in 1..NumRows(t) :
                     \E c \in RefColumns : reference[i] = t.rows[i][c + 1]
                /\ \E sl \in Slices : \A i \in 1..NumRows(t) :
                     (basecall[i] = "N") <=> AllEqual(t, i, sl[1], sl[2])

C5_Witness ==
    /\ pc = "api"
    /\ bcFrom = <<1, 0>>
    /\ refFrom = <<1, 0>>
    /\ data.file = 2
    /\ call.op = "calculate_error"
    /\ Len(reference) = 2
    /\ Len(basecall) = 2
    /\ basecall[1] # basecall[2]

C7_Original ==
    [][(call'.op = "change_column_titles"
          /\ Len(call'.order) # Len(RelabelPositions))
        => (raised' # "none" /\ data' = data)]_vars

\* C8: after basecall_sequence(df, s, e) self.basecall is exactly the call of
\* each row of df in row order, and after reference_sequence(df, c)
\* self.reference is exactly the value in column c of each row in row order,
\* whatever the lists held before
ExpectedCall(df, i, start, end) ==
    IF AllEqual(df, i, start, end) THEN "N"
    ELSE df.columns[FirstOf(MaxAt(df, i, start, end))]

C8_ResetEachCall ==
    /\ JustCalled("basecall_sequence") =>
         basecall = [i \in 1..NumRows(data) |-> ExpectedCall(data, i, call.start, call.end)]
    /\ JustCalled("reference_sequence") =>
         reference = [i \in 1..NumRows(data) |-> data.rows[i][call.col + 1]]

C8_Witness ==
    /\ JustCalled("basecall_sequence")
    /\ data.file = 2
    /\ bcFrom = <<2, 0>>
    /\ refFrom = <<1, 0>>
    /\ Len(reference) = 2
    /\ Len(basecall) = 1

\* C9: a call of change_column_titles with 8 labels that returns leaves
\* base_order[i] as the title of position RelabelPositions[i], every other
\* title as it was, and the rows as they were
C9_Original ==
    [][(call'.op = "change_column_titles"
          /\ Len(call'.order) = Len(RelabelPositions)
          /\ raised' = "none")
        => /\ \A i \in 1..Len(RelabelPositions) :
                data'.columns[RelabelPositions[i] + 1] = call'.order[i]
           /\ \A j \in 1..NumCols(data) :
                (\A i \in 1..Len(RelabelPositions) : j # RelabelPositions[i] + 1)
                    => data'.columns[j] = data.columns[j]
           /\ NumCols(data') = NumCols(data)
           /\ data'.rows = data.rows]_vars

\* what the driver should print for run r of file f
TitleAt(f, j) ==
    IF \E i \in 1..Len(RelabelPositions) : j = RelabelPositions[i] + 1
    THEN base_orders[f][CHOOSE i \in 1..Len(RelabelPositions) : j = RelabelPositions[i] + 1]
    ELSE csv[f].columns[j]
Relabeled(f) ==
    [csv[f] EXCEPT !.columns = [j \in 1..NumCols(csv[f]) |-> TitleAt(f, j)]]
RunCall(f, r) ==
    [i \in 1..NumRows(csv[f]) |->
        ExpectedCall(Relabeled(f), i, runs[r].start_column, runs[r].end_column)]
RunReference(f, r) ==
    [i \in 1..NumRows(csv[f]) |-> csv[f].rows[i][runs[r].ref_column + 1]]
PairFile(k) == ((k - 1) \div Len(runs)) + 1
PairRun(k) == ((k - 1) % Len(runs)) + 1
PrintedInOrder ==
    \A k \in 1..Len(printed) :
        LET f == PairFile(k)
            r == PairRun(k)
        IN /\ NumRows(csv[f]) > 0
           /\ printed[k].kind = "value"
           /\ printed[k].num * NumRows(csv[f])
                = Differ(RunReference(f, r), RunCall(f, r)) * 100 * printed[k].den
CalledAfterBoth ==
    (pc = "run" /\ RunBody[stmt] = "calculate_error") =>
        /\ bcFrom = <<fileIdx, runIdx>>
        /\ refFrom = <<fileIdx, runIdx>>
        /\ basecall = RunCall(fileIdx, runIdx)
        /\ reference = RunReference(fileIdx, runIdx)
Ended == pc \in {"done", "crashed"}

\* C10 as stated: calculate_error is called only after basecall_sequence and
\* reference_sequence of the same file and run, every percentage printed is
\* that of its own file and run, and when the driver ends it has printed one
\* percentage per file and run
C10_Original ==
    /\ CalledAfterBoth
    /\ PrintedInOrder
    /\ Ended => Len(printed) = NumFiles * Len(runs)

\* C10 amended: the same, except that the driver ends at the first file whose
\* table has no rows, where calculate_error raises ZeroDivisionError: it has
\* then printed one percentage per run of each earlier file and nothing else;
\* with no such file it prints one percentage per file and run
C10_DriverOrder ==
    /\ CalledAfterBoth
    /\ PrintedInOrder
    /\ pc = "done" =>
         /\ Len(printed) = NumFiles * Len(runs)
         /\ \A f \in 1..NumFiles : NumRows(csv[f]) > 0
    /\ pc = "crashed" =>
         /\ raised = "ZeroDivisionError"
         /\ NumRows(csv[fileIdx]) = 0
         /\ \A f \in 1..(fileIdx - 1) : NumRows(csv[f]) > 0
         /\ Len(printed) = (fileIdx - 1) * Len(runs)

C10_Witness ==
    /\ pc = "done"
    /\ Len(printed) = 4
    /\ printed[1].num = 50
    /\ printed[2].num = 100
    /\ printed[3].num = 0
    /\ NumRows(csv[1]) = 2
    /\ NumRows(csv[2]) = 1

====
